---- MODULE Spec2Model ----
(***************************************************************************)
(* Paper Bot: the retrieval-augmented chat assistant of                    *)
(* src/applications/rag/paper_bot.                                         *)
(*                                                                         *)
(*   pb_utils.py      Vectorstore (load_docs, embed, retrieve) and         *)
(*                    PaperBot (__init__, chat_completion)                 *)
(*   pb_streamlit.py  the chat application script, re-executed from its    *)
(*                    first line by the UI framework on every interaction  *)
(*                                                                         *)
(* The remote services (index search, reranker, query planning, streaming  *)
(* chat) are the environment: each call either fails or returns a value    *)
(* drawn from a set of outcomes that respects the service's contract.      *)
(* Every per-conversation variable is a function over Sessions.            *)
(***************************************************************************)
EXTENDS Naturals, Sequences, FiniteSets, TLC

\* ------------------------------------------------------------------ bounds

\* Pages of the largest paper the document loader returns.
NumPages == 4
\* Generation events consumed from one stream.
MaxEvents == 3
\* Executions of the application script, over all conversations.
MaxRuns == 2

\* Browser sessions (conversations) of the chat application.
Sessions == {"A", "B"}
\* Prompts the user types.
Prompts == {"m1"}
\* Texts of the sub-queries the planning call returns.
Queries == {"q1", "q2"}

\* ------------------------------------------------------------ pure helpers

Min(a, b) == IF a <= b THEN a ELSE b

Range(f) == {f[i] : i \in DOMAIN f}

\* Sequences over S of length at most n.
SeqsUpTo(S, n) == UNION {[1..k -> S] : k \in 0..n}

RECURSIVE InjSeqsUpTo(_, _)
\* Sequences over S of length at most n without a repeated element.
InjSeqsUpTo(S, n) ==
    IF n = 0 THEN {<<>>}
    ELSE LET shorter == InjSeqsUpTo(S, n - 1)
         IN  shorter \cup
             UNION {{Append(q, x) : x \in S \ Range(q)} :
                        q \in {p \in shorter : Len(p) = n - 1}}

\* Concat keeping the first chunk only.
Concat_First(chunks) == IF chunks = <<>> THEN "" ELSE Head(chunks)

RECURSIVE Concat(_)
\* "".join(chunks)
Concat(chunks) ==
    IF chunks = <<>> THEN "" ELSE Head(chunks) \o Concat(Tail(chunks))

\* -------------------------------------------------------------- documents

\* One page of the paper as the loader returns it.
Page(i) ==
    [page_content |-> "page" \o ToString(i),
     metadata |-> [source |-> "./paper.pdf", page |-> i - 1]]

\* pdf_loader.load_and_split() on a paper of n pages.
Pages(n) == [i \in 1..n |-> Page(i)]

\* -------------------------------------------------------------- variables

VARIABLES
    paper,            \* the pages behind paper_url
    nextUuid,         \* source of uuid.uuid4(): the next unused value
    builds,           \* number of FAISS.from_documents calls so far
    chatLog,          \* the chat_stream calls the generation service received
    running,          \* per session: the script is executing
    messages,         \* per session: st.session_state.messages
    vectorstore,      \* per session: the script's Vectorstore object
    bot,              \* per session: the script's PaperBot object
    pc,               \* per session: position in chat_completion
    message,          \* per session: chat_completion's argument
    search_queries,   \* per session: response.search_queries
    qi,               \* per session: position of the loop over search_queries
    documents,        \* per session: the accumulated document chunks
    request,          \* per session: the chat_stream call in flight
    events,           \* per session: generation events consumed so far
    stream_responses, \* per session: the output list
    citations,        \* per session: citations buffer
    cited_documents,  \* per session: cited-documents buffer
    yi,               \* per session: position of the final yield loop
    delivered,        \* per session: strings the consumer has received
    error,            \* per session: the exception that reached the script
    rpc,              \* per session: position in Vectorstore.retrieve
    query,            \* per session: retrieve's argument
    retrieved_docs,   \* per session: candidates of the dense retrieval
    rerank_results,   \* per session: results of the reranker
    reranked_docs     \* per session: retrieve's return value

globalVars == <<paper, nextUuid, builds, chatLog>>
scriptVars == <<running, messages, vectorstore, bot>>
turnVars == <<pc, message, search_queries, qi, documents, request, error>>
streamVars == <<events, stream_responses, citations, cited_documents, yi, delivered>>
retrieveVars == <<rpc, query, retrieved_docs, rerank_results, reranked_docs>>
vars == <<globalVars, scriptVars, turnVars, streamVars, retrieveVars>>

\* ------------------------------------------------------------ Vectorstore

\* The script has not constructed a Vectorstore yet.
NoVectorstore ==
    [docs |-> <<>>, retrieve_top_k |-> 0, rerank_top_k |-> 0, vs |-> <<>>]

\* Vectorstore.__init__: load_docs, the two top-k settings, embed.
NewVectorstore(pages) ==
    [docs |-> pages, retrieve_top_k |-> 10, rerank_top_k |-> 3, vs |-> pages]

\* Outcomes of vs.similarity_search(query, k): at most k distinct passages
\* of the index, in any order of similarity.
SearchOutcomes(vs, k) ==
    {[i \in DOMAIN q |-> vs[q[i]]] :
        q \in InjSeqsUpTo(DOMAIN vs, Min(k, Len(vs)))}

\* rd_page_content = [doc.page_content for doc in retrieved_docs]
PageContents(docs) == [i \in DOMAIN docs |-> docs[i].page_content]

\* RerankTopN with the wrong setting: the reranker is asked for as many
\* results as the dense retrieval was.
RerankTopN_RetrieveK(store) == store.retrieve_top_k

\* The top_n argument of the rerank call.
RerankTopN(store) == store.rerank_top_k

\* Outcomes of co.rerank(documents, top_n).results: at most top_n results,
\* each carrying the 0-based index of a distinct input document.
RerankOutcomes(contents, top_n) ==
    {[i \in DOMAIN q |-> [index |-> q[i] - 1]] :
        q \in InjSeqsUpTo(DOMAIN contents, Min(top_n, Len(contents)))}

\* MapReranked taking the metadata by position in the results, not by the
\* result's index.
MapReranked_ByPosition(cands, results) ==
    [i \in DOMAIN results |->
        [text |-> cands[results[i].index + 1].page_content,
         metadata |-> cands[i].metadata]]

\* The list comprehension of retrieve: one dict per rerank result.
MapReranked(cands, results) ==
    [i \in DOMAIN results |->
        [text |-> cands[results[i].index + 1].page_content,
         metadata |-> cands[results[i].index + 1].metadata]]

\* An exception nobody catches ends the generator and the script run that
\* consumes it: nothing is yielded and the script's later lines do not run.
Raise(s, err) ==
    /\ pc' = [pc EXCEPT ![s] = "failed"]
    /\ error' = [error EXCEPT ![s] = err]
    /\ running' = [running EXCEPT ![s] = FALSE]

\* Propagate with a handler around retrieve that notes the error and goes
\* on to the call without documents.
Propagate_Fallback(s, err) ==
    /\ rpc' = [rpc EXCEPT ![s] = "raised"]
    /\ pc' = [pc EXCEPT ![s] = "ungrounded"]
    /\ error' = [error EXCEPT ![s] = err]
    /\ running' = running

\* An exception raised inside retrieve leaves retrieve and, uncaught in the
\* loop of chat_completion (lines 119-121), the generator.
Propagate(s, err) ==
    /\ rpc' = [rpc EXCEPT ![s] = "raised"]
    /\ Raise(s, err)

\* retrieve, line 67: the dense retrieval returns its candidates.
SimilaritySearch(s, cands) ==
    /\ rpc[s] = "similarity_search"
    /\ retrieved_docs' = [retrieved_docs EXCEPT ![s] = cands]
    /\ rpc' = [rpc EXCEPT ![s] = "rerank"]
    /\ UNCHANGED <<globalVars, scriptVars, turnVars, streamVars,
                   query, rerank_results, reranked_docs>>

\* retrieve, line 67: the dense retrieval raises.
SimilaritySearchFails(s) ==
    /\ rpc[s] = "similarity_search"
    /\ Propagate(s, "similarity_search")
    /\ UNCHANGED <<globalVars, messages, vectorstore, bot, streamVars,
                   message, search_queries, qi, documents, request,
                   query, retrieved_docs, rerank_results, reranked_docs>>

\* Rerank that also lowers the store's retrieve_top_k to its rerank_top_k.
Rerank_LowersTopK(s, results) ==
    /\ rpc[s] = "rerank"
    /\ rerank_results' = [rerank_results EXCEPT ![s] = results]
    /\ reranked_docs' =
          [reranked_docs EXCEPT ![s] = MapReranked(retrieved_docs[s], results)]
    /\ rpc' = [rpc EXCEPT ![s] = "returned"]
    /\ vectorstore' = [vectorstore EXCEPT ![s].retrieve_top_k = vectorstore[s].rerank_top_k]
    /\ UNCHANGED <<globalVars, running, messages, bot, turnVars, streamVars,
                   query, retrieved_docs>>

\* retrieve, lines 70-88: the reranker is called on the candidates' texts
\* (whatever their number), its results are mapped back and returned.
Rerank(s, results) ==
    /\ rpc[s] = "rerank"
    /\ rerank_results' = [rerank_results EXCEPT ![s] = results]
    /\ reranked_docs' =
          [reranked_docs EXCEPT ![s] = MapReranked(retrieved_docs[s], results)]
    /\ rpc' = [rpc EXCEPT ![s] = "returned"]
    /\ UNCHANGED <<globalVars, scriptVars, turnVars, streamVars,
                   query, retrieved_docs>>

\* retrieve, lines 72-77: the reranker raises.
RerankFails(s) ==
    /\ rpc[s] = "rerank"
    /\ Propagate(s, "rerank")
    /\ UNCHANGED <<globalVars, messages, vectorstore, bot, streamVars,
                   message, search_queries, qi, documents, request,
                   query, retrieved_docs, rerank_results, reranked_docs>>

\* --------------------------------------------------------------- PaperBot

NoPaperBot == [conversation_id |-> 0]

\* NewPaperBot with one fixed id for every bot.
NewPaperBot_Fixed(uuid) == [conversation_id |-> 1]

\* PaperBot.__init__: the conversation id is a fresh uuid4.
NewPaperBot(uuid) == [conversation_id |-> uuid]

\* chat_input returned None: nothing was submitted.
NoPrompt == ""

\* document_contents = [{"text": doc["text"]} for doc in documents]
DocumentContents(docs) == [i \in DOMAIN docs |-> [text |-> docs[i].text]]

\* The keyword arguments of the chat_stream call of lines 126-131.
GroundedCall(msg, docs, b) ==
    [message |-> msg, model |-> "command-r",
     documents |-> <<DocumentContents(docs)>>,
     conversation_id |-> b.conversation_id]

\* PlainCall passing an empty document list.
PlainCall_EmptyDocuments(msg, b) ==
    [message |-> msg, model |-> "command-r",
     documents |-> << <<>> >>,
     conversation_id |-> b.conversation_id]

\* The keyword arguments of the chat_stream call of lines 133-137; an
\* argument that is not passed is the empty sequence.
PlainCall(msg, b) ==
    [message |-> msg, model |-> "command-r",
     documents |-> <<>>,
     conversation_id |-> b.conversation_id]

\* What the generation service records of a call.
LogEntry(s, call) ==
    [session |-> s, conversation_id |-> call.conversation_id,
     grounded |-> call.documents # <<>>]

\* pb_streamlit.py from its first line to the call of chat_completion: the
\* Vectorstore and the PaperBot are constructed, the history is shown and,
\* when a prompt was submitted, it is appended and the turn starts.
ScriptRun(s, prompt) ==
    /\ ~running[s]
    /\ nextUuid <= MaxRuns
    /\ vectorstore' = [vectorstore EXCEPT ![s] = NewVectorstore(paper)]
    /\ builds' = builds + 1
    /\ bot' = [bot EXCEPT ![s] = NewPaperBot(nextUuid)]
    /\ nextUuid' = nextUuid + 1
    /\ messages' = [messages EXCEPT ![s] =
          IF prompt # NoPrompt
          THEN Append(@, [role |-> "user", content |-> prompt])
          ELSE @]
    /\ running' = [running EXCEPT ![s] = prompt # NoPrompt]
    /\ pc' = [pc EXCEPT ![s] = IF prompt # NoPrompt THEN "plan" ELSE "none"]
    /\ message' = [message EXCEPT ![s] = prompt]
    /\ search_queries' = [search_queries EXCEPT ![s] = <<>>]
    /\ qi' = [qi EXCEPT ![s] = 0]
    /\ documents' = [documents EXCEPT ![s] = <<>>]
    /\ request' = [request EXCEPT ![s] = <<>>]
    /\ error' = [error EXCEPT ![s] = "none"]
    /\ events' = [events EXCEPT ![s] = <<>>]
    /\ stream_responses' = [stream_responses EXCEPT ![s] = <<>>]
    /\ citations' = [citations EXCEPT ![s] = <<>>]
    /\ cited_documents' = [cited_documents EXCEPT ![s] = <<>>]
    /\ yi' = [yi EXCEPT ![s] = 0]
    /\ delivered' = [delivered EXCEPT ![s] = <<>>]
    /\ rpc' = [rpc EXCEPT ![s] = "none"]
    /\ query' = [query EXCEPT ![s] = ""]
    /\ retrieved_docs' = [retrieved_docs EXCEPT ![s] = <<>>]
    /\ rerank_results' = [rerank_results EXCEPT ![s] = <<>>]
    /\ reranked_docs' = [reranked_docs EXCEPT ![s] = <<>>]
    /\ UNCHANGED <<paper, chatLog>>

\* chat_completion, lines 111-118: the planning call returns; the branch
\* on response.search_queries is taken.
PlanQueries(s, plan) ==
    /\ pc[s] = "plan"
    /\ search_queries' = [search_queries EXCEPT ![s] = plan]
    /\ stream_responses' = [stream_responses EXCEPT ![s] = <<>>]
    /\ documents' = [documents EXCEPT ![s] = <<>>]
    /\ qi' = [qi EXCEPT ![s] = IF plan # <<>> THEN 1 ELSE 0]
    /\ pc' = [pc EXCEPT ![s] = IF plan # <<>> THEN "retrieving" ELSE "ungrounded"]
    /\ UNCHANGED <<globalVars, scriptVars, retrieveVars, message, request, error,
                   events, citations, cited_documents, yi, delivered>>

\* chat_completion, line 111: the planning call raises.
PlanFails(s) ==
    /\ pc[s] = "plan"
    /\ Raise(s, "chat")
    /\ UNCHANGED <<globalVars, messages, vectorstore, bot, streamVars,
                   retrieveVars, message, search_queries, qi, documents, request>>

\* chat_completion, lines 119-121: retrieve is called for the next query.
CallRetrieve(s) ==
    /\ pc[s] = "retrieving"
    /\ rpc[s] = "none"
    /\ qi[s] <= Len(search_queries[s])
    /\ query' = [query EXCEPT ![s] = search_queries[s][qi[s]].text]
    /\ rpc' = [rpc EXCEPT ![s] = "similarity_search"]
    /\ UNCHANGED <<globalVars, scriptVars, turnVars, streamVars,
                   retrieved_docs, rerank_results, reranked_docs>>

\* ExtendDocuments keeping only the passages the list does not hold yet.
ExtendDocuments_Dedup(s) ==
    /\ pc[s] = "retrieving"
    /\ rpc[s] = "returned"
    /\ documents' = [documents EXCEPT ![s] =
          documents[s] \o SelectSeq(reranked_docs[s],
                                    LAMBDA d : d \notin Range(documents[s]))]
    /\ qi' = [qi EXCEPT ![s] = @ + 1]
    /\ rpc' = [rpc EXCEPT ![s] = "none"]
    /\ query' = [query EXCEPT ![s] = ""]
    /\ retrieved_docs' = [retrieved_docs EXCEPT ![s] = <<>>]
    /\ rerank_results' = [rerank_results EXCEPT ![s] = <<>>]
    /\ reranked_docs' = [reranked_docs EXCEPT ![s] = <<>>]
    /\ UNCHANGED <<globalVars, scriptVars, streamVars, pc, message,
                   search_queries, request, error>>

\* chat_completion, line 121: documents.extend(<what retrieve returned>).
ExtendDocuments(s) ==
    /\ pc[s] = "retrieving"
    /\ rpc[s] = "returned"
    /\ documents' = [documents EXCEPT ![s] = @ \o reranked_docs[s]]
    /\ qi' = [qi EXCEPT ![s] = @ + 1]
    /\ rpc' = [rpc EXCEPT ![s] = "none"]
    /\ query' = [query EXCEPT ![s] = ""]
    /\ retrieved_docs' = [retrieved_docs EXCEPT ![s] = <<>>]
    /\ rerank_results' = [rerank_results EXCEPT ![s] = <<>>]
    /\ reranked_docs' = [reranked_docs EXCEPT ![s] = <<>>]
    /\ UNCHANGED <<globalVars, scriptVars, streamVars, pc, message,
                   search_queries, request, error>>

\* The chat_stream call is sent; lines 140-141 empty the two buffers.
SendChatStream(s, call) ==
    /\ request' = [request EXCEPT ![s] = <<call>>]
    /\ chatLog' = Append(chatLog, LogEntry(s, call))
    /\ pc' = [pc EXCEPT ![s] = "streaming"]
    /\ citations' = [citations EXCEPT ![s] = <<>>]
    /\ cited_documents' = [cited_documents EXCEPT ![s] = <<>>]
    /\ UNCHANGED <<paper, nextUuid, builds, scriptVars, retrieveVars, message,
                   search_queries, qi, documents, error, events,
                   stream_responses, yi, delivered>>

\* ChatStreamGrounded with the call inside the loop body: it is sent as
\* soon as one retrieve has returned.
ChatStreamGrounded_InLoop(s) ==
    /\ pc[s] = "retrieving"
    /\ rpc[s] = "none"
    /\ qi[s] > 1
    /\ SendChatStream(s, GroundedCall(message[s], documents[s], bot[s]))

\* chat_completion, lines 123-131: after the loop, the grounded call.
ChatStreamGrounded(s) ==
    /\ pc[s] = "retrieving"
    /\ rpc[s] = "none"
    /\ qi[s] > Len(search_queries[s])
    /\ SendChatStream(s, GroundedCall(message[s], documents[s], bot[s]))

\* chat_completion, lines 132-137: the call without documents.
ChatStreamPlain(s) ==
    /\ pc[s] = "ungrounded"
    /\ SendChatStream(s, PlainCall(message[s], bot[s]))

\* -------------------------------------------------------------- streaming

TextEvent(txt) == [event_type |-> "text-generation", text |-> txt]
CitationEvent(cs) == [event_type |-> "citation-generation", citations |-> cs]
SearchResultsEvent(ds) == [event_type |-> "search-results", documents |-> ds]
\* An event of a type the loop has no branch for.
OtherEvent == [event_type |-> "stream-start"]

IsText(ev) == ev.event_type = "text-generation"
IsCitation(ev) == ev.event_type = "citation-generation"
IsSearchResults(ev) == ev.event_type = "search-results"

\* Generation events of a stream.
Events ==
    {TextEvent("a"), TextEvent("b"),
     CitationEvent(<<>>), CitationEvent(<<"c1">>), CitationEvent(<<"c2", "c3">>),
     SearchResultsEvent(<<[id |-> "d1"], [id |-> "d2"]>>),
     SearchResultsEvent(<<[id |-> "d3"]>>),
     OtherEvent}

\* ResponsesAfter emitting citations inline, as they arrive.
ResponsesAfter_Inline(out, ev) ==
    IF IsText(ev) THEN Append(out, ev.text)
    ELSE IF IsCitation(ev) THEN out \o ev.citations
    ELSE out

\* Lines 145-146: what one event does to the output list.
ResponsesAfter(out, ev) == IF IsText(ev) THEN Append(out, ev.text) ELSE out

\* Lines 147-148: what one event does to the citations buffer.
CitationsAfter(cits, ev) == IF IsCitation(ev) THEN cits \o ev.citations ELSE cits

\* CitedDocumentsAfter accumulating the documents like the citations.
CitedDocumentsAfter_Extend(docs, ev) ==
    IF IsSearchResults(ev) THEN docs \o ev.documents ELSE docs

\* Lines 149-150: what one event does to the cited-documents buffer.
CitedDocumentsAfter(docs, ev) == IF IsSearchResults(ev) THEN ev.documents ELSE docs

\* FormatDocument without the blank after the comma.
FormatDocument_NoBlank(document) == document.id \o ","

\* f"{document['id']}, "
FormatDocument(document) == document.id \o ", "

\* CitationsBlock guarded by the cited documents instead of the citations.
CitationsBlock_IfDocuments(cits, docs) ==
    IF docs # <<>>
    THEN <<"\n\nCITATIONS:">> \o cits \o <<"\nDOCUMENTS:">>
         \o [i \in DOMAIN docs |-> FormatDocument(docs[i])]
    ELSE <<>>

\* Lines 153-160: the strings appended once the stream has ended.
CitationsBlock(cits, docs) ==
    IF cits # <<>>
    THEN <<"\n\nCITATIONS:">> \o cits \o <<"\nDOCUMENTS:">>
         \o [i \in DOMAIN docs |-> FormatDocument(docs[i])]
    ELSE <<>>

\* Lines 144-150: the loop takes the next event off the stream.  The
\* service has begun to answer, so the call is no longer in flight.
StreamEvent(s, ev) ==
    /\ pc[s] = "streaming"
    /\ Len(events[s]) < MaxEvents
    /\ events' = [events EXCEPT ![s] = Append(@, ev)]
    /\ stream_responses' = [stream_responses EXCEPT ![s] = ResponsesAfter(@, ev)]
    /\ citations' = [citations EXCEPT ![s] = CitationsAfter(@, ev)]
    /\ cited_documents' = [cited_documents EXCEPT ![s] = CitedDocumentsAfter(@, ev)]
    /\ request' = [request EXCEPT ![s] = <<>>]
    /\ UNCHANGED <<globalVars, scriptVars, retrieveVars, pc, message,
                   search_queries, qi, documents, error, yi, delivered>>

\* Lines 126-150: the chat_stream call, or the stream while it is being
\* consumed, raises.
StreamFails(s) ==
    /\ pc[s] = "streaming"
    /\ Raise(s, "chat_stream")
    /\ request' = [request EXCEPT ![s] = <<>>]
    /\ UNCHANGED <<globalVars, messages, vectorstore, bot, streamVars,
                   retrieveVars, message, search_queries, qi, documents>>

\* Lines 152-160: the stream is exhausted; the citations block is appended
\* and the generator reaches its yield loop.
StreamEnd(s) ==
    /\ pc[s] = "streaming"
    /\ stream_responses' = [stream_responses EXCEPT ![s] =
          @ \o CitationsBlock(citations[s], cited_documents[s])]
    /\ pc' = [pc EXCEPT ![s] = "yielding"]
    /\ yi' = [yi EXCEPT ![s] = 1]
    /\ request' = [request EXCEPT ![s] = <<>>]
    /\ UNCHANGED <<globalVars, scriptVars, retrieveVars, message,
                   search_queries, qi, documents, error, events, citations,
                   cited_documents, delivered>>

\* Lines 162-163: one string is yielded to the consumer (st.write_stream).
Yield(s) ==
    /\ pc[s] = "yielding"
    /\ yi[s] <= Len(stream_responses[s])
    /\ delivered' = [delivered EXCEPT ![s] = Append(@, stream_responses[s][yi[s]])]
    /\ yi' = [yi EXCEPT ![s] = @ + 1]
    /\ UNCHANGED <<globalVars, scriptVars, turnVars, retrieveVars, events,
                   stream_responses, citations, cited_documents>>

\* The generator is exhausted: write_stream returns what it wrote and
\* pb_streamlit.py line 36 appends the assistant message; the script ends.
Finish(s) ==
    /\ pc[s] = "yielding"
    /\ yi[s] > Len(stream_responses[s])
    /\ pc' = [pc EXCEPT ![s] = "done"]
    /\ messages' = [messages EXCEPT ![s] =
          Append(@, [role |-> "assistant", content |-> Concat(delivered[s])])]
    /\ running' = [running EXCEPT ![s] = FALSE]
    /\ UNCHANGED <<globalVars, vectorstore, bot, streamVars, retrieveVars,
                   message, search_queries, qi, documents, request, error>>

\* ---------------------------------------------------------- initial state

\* No frame of chat_completion or retrieve exists.
NoTurn(ss) ==
    /\ pc = [s \in ss |-> "none"]
    /\ message = [s \in ss |-> ""]
    /\ search_queries = [s \in ss |-> <<>>]
    /\ qi = [s \in ss |-> 0]
    /\ documents = [s \in ss |-> <<>>]
    /\ request = [s \in ss |-> <<>>]
    /\ error = [s \in ss |-> "none"]
    /\ events = [s \in ss |-> <<>>]
    /\ stream_responses = [s \in ss |-> <<>>]
    /\ citations = [s \in ss |-> <<>>]
    /\ cited_documents = [s \in ss |-> <<>>]
    /\ yi = [s \in ss |-> 0]
    /\ delivered = [s \in ss |-> <<>>]

\* Session "A" is in its first turn: the plan had one sub-query and
\* retrieve has just been called with it, on an index over some paper.
InitRetrieve ==
    /\ paper \in {Pages(n) : n \in 0..NumPages}
    /\ nextUuid = 2
    /\ builds = 1
    /\ chatLog = <<>>
    /\ running = [s \in Sessions |-> s = "A"]
    /\ vectorstore =
          [s \in Sessions |-> IF s = "A" THEN NewVectorstore(paper)
                              ELSE NoVectorstore]
    /\ bot = [s \in Sessions |-> IF s = "A" THEN NewPaperBot(1) ELSE NoPaperBot]
    /\ \E prompt \in Prompts, q \in Queries :
          /\ messages = [s \in Sessions |->
                IF s = "A" THEN <<[role |-> "user", content |-> prompt]>>
                ELSE <<>>]
          /\ message = [s \in Sessions |-> IF s = "A" THEN prompt ELSE ""]
          /\ search_queries =
                [s \in Sessions |-> IF s = "A" THEN <<[text |-> q]>> ELSE <<>>]
          /\ query = [s \in Sessions |-> IF s = "A" THEN q ELSE ""]
    /\ pc = [s \in Sessions |-> IF s = "A" THEN "retrieving" ELSE "none"]
    /\ qi = [s \in Sessions |-> IF s = "A" THEN 1 ELSE 0]
    /\ rpc = [s \in Sessions |-> IF s = "A" THEN "similarity_search" ELSE "none"]
    /\ documents = [s \in Sessions |-> <<>>]
    /\ request = [s \in Sessions |-> <<>>]
    /\ error = [s \in Sessions |-> "none"]
    /\ events = [s \in Sessions |-> <<>>]
    /\ stream_responses = [s \in Sessions |-> <<>>]
    /\ citations = [s \in Sessions |-> <<>>]
    /\ cited_documents = [s \in Sessions |-> <<>>]
    /\ yi = [s \in Sessions |-> 0]
    /\ delivered = [s \in Sessions |-> <<>>]
    /\ retrieved_docs = [s \in Sessions |-> <<>>]
    /\ rerank_results = [s \in Sessions |-> <<>>]
    /\ reranked_docs = [s \in Sessions |-> <<>>]

NextRetrieve ==
    \/ \E cands \in SearchOutcomes(vectorstore["A"].vs,
                                   vectorstore["A"].retrieve_top_k) :
          SimilaritySearch("A", cands)
    \/ SimilaritySearchFails("A")
    \/ \E results \in RerankOutcomes(PageContents(retrieved_docs["A"]),
                                     RerankTopN(vectorstore["A"])) :
          Rerank("A", results)
    \/ RerankFails("A")

\* Vectorstore.retrieve on its own, over every index and service outcome.
SpecRetrieve == InitRetrieve /\ [][NextRetrieve]_vars

\* ------------------------------------------------------ the application

\* Nothing has run: no session has executed the script.
Init ==
    /\ paper \in {Pages(0), Pages(NumPages)}
    /\ nextUuid = 1
    /\ builds = 0
    /\ chatLog = <<>>
    /\ running = [s \in Sessions |-> FALSE]
    /\ messages = [s \in Sessions |-> <<>>]
    /\ vectorstore = [s \in Sessions |-> NoVectorstore]
    /\ bot = [s \in Sessions |-> NoPaperBot]
    /\ NoTurn(Sessions)
    /\ rpc = [s \in Sessions |-> "none"]
    /\ query = [s \in Sessions |-> ""]
    /\ retrieved_docs = [s \in Sessions |-> <<>>]
    /\ rerank_results = [s \in Sessions |-> <<>>]
    /\ reranked_docs = [s \in Sessions |-> <<>>]

\* The services' outcomes explored turn after turn: the index answers with
\* its first passages in index order, the reranker with nothing or with the
\* first top_n candidates in reverse order, the stream with text and citations.
TurnPlans == {<<>>, <<[text |-> "q1"]>>, <<[text |-> "q1"], [text |-> "q2"]>>}
TurnSearchOutcomes(vs, k) == {SubSeq(vs, 1, Min(k, Len(vs)))}
TurnRerankOutcomes(contents, top_n) ==
    {[i \in 1..n |-> [index |-> n - i]] : n \in {0, Min(top_n, Len(contents))}}
TurnEvents == {TextEvent("a"), CitationEvent(<<"c1">>)}

\* One step of the conversation of session s.
Turn(s) ==
    \/ \E prompt \in Prompts \cup {NoPrompt} : ScriptRun(s, prompt)
    \/ \E plan \in TurnPlans : PlanQueries(s, plan)
    \/ PlanFails(s)
    \/ CallRetrieve(s)
    \/ \E cands \in TurnSearchOutcomes(vectorstore[s].vs,
                                       vectorstore[s].retrieve_top_k) :
          SimilaritySearch(s, cands)
    \/ SimilaritySearchFails(s)
    \/ \E results \in TurnRerankOutcomes(PageContents(retrieved_docs[s]),
                                         RerankTopN(vectorstore[s])) :
          Rerank(s, results)
    \/ RerankFails(s)
    \/ ExtendDocuments(s)
    \/ ChatStreamGrounded(s)
    \/ ChatStreamPlain(s)
    \/ \E ev \in TurnEvents : StreamEvent(s, ev)
    \/ StreamFails(s)
    \/ StreamEnd(s)
    \/ Yield(s)
    \/ Finish(s)

Next == Turn("A")

\* One conversation with the chat application, turn after turn.
Spec == Init /\ [][Next]_vars

\* ------------------------------------------------- one stream, every event

\* Session "A" has just sent its chat_stream call: after an empty plan, or
\* after one sub-query whose retrieval returned nothing.
InitStream ==
    /\ paper = Pages(NumPages)
    /\ nextUuid = 2
    /\ builds = 1
    /\ running = [s \in Sessions |-> s = "A"]
    /\ vectorstore =
          [s \in Sessions |-> IF s = "A" THEN NewVectorstore(paper)
                              ELSE NoVectorstore]
    /\ bot = [s \in Sessions |-> IF s = "A" THEN NewPaperBot(1) ELSE NoPaperBot]
    /\ \E prompt \in Prompts, plan \in {<<>>, <<[text |-> "q1"]>>} :
          /\ messages = [s \in Sessions |->
                IF s = "A" THEN <<[role |-> "user", content |-> prompt]>>
                ELSE <<>>]
          /\ message = [s \in Sessions |-> IF s = "A" THEN prompt ELSE ""]
          /\ search_queries = [s \in Sessions |-> IF s = "A" THEN plan ELSE <<>>]
          /\ qi = [s \in Sessions |-> IF s = "A" THEN 2 * Len(plan) ELSE 0]
          /\ request = [s \in Sessions |->
                IF s # "A" THEN <<>>
                ELSE IF plan = <<>> THEN <<PlainCall(prompt, bot[s])>>
                ELSE <<GroundedCall(prompt, <<>>, bot[s])>>]
          /\ chatLog = <<LogEntry("A", request["A"][1])>>
    /\ pc = [s \in Sessions |-> IF s = "A" THEN "streaming" ELSE "none"]
    /\ documents = [s \in Sessions |-> <<>>]
    /\ error = [s \in Sessions |-> "none"]
    /\ events = [s \in Sessions |-> <<>>]
    /\ stream_responses = [s \in Sessions |-> <<>>]
    /\ citations = [s \in Sessions |-> <<>>]
    /\ cited_documents = [s \in Sessions |-> <<>>]
    /\ yi = [s \in Sessions |-> 0]
    /\ delivered = [s \in Sessions |-> <<>>]
    /\ rpc = [s \in Sessions |-> "none"]
    /\ query = [s \in Sessions |-> ""]
    /\ retrieved_docs = [s \in Sessions |-> <<>>]
    /\ rerank_results = [s \in Sessions |-> <<>>]
    /\ reranked_docs = [s \in Sessions |-> <<>>]

NextStream ==
    \/ \E ev \in Events : StreamEvent("A", ev)
    \/ StreamFails("A")
    \/ StreamEnd("A")
    \/ Yield("A")
    \/ Finish("A")

\* The consumption of one generation stream, over every event sequence.
SpecStream == InitStream /\ [][NextStream]_vars

\* ------------------------------------------------------ two conversations

\* What the remote services return in the turns of two conversations.
SessionPlans == {<<>>, <<[text |-> "q1"]>>}
SessionRerankOutcomes(contents, top_n) ==
    {[i \in 1..Min(top_n, Len(contents)) |-> [index |-> i - 1]]}
SessionEvents == {TextEvent("a")}

\* One step of the conversation of browser session s, which runs the
\* script on its own: its own Vectorstore over the same paper, its own bot.
SessionTurn(s) ==
    \/ \E prompt \in Prompts \cup {NoPrompt} : ScriptRun(s, prompt)
    \/ \E plan \in SessionPlans : PlanQueries(s, plan)
    \/ PlanFails(s)
    \/ CallRetrieve(s)
    \/ \E cands \in TurnSearchOutcomes(vectorstore[s].vs,
                                       vectorstore[s].retrieve_top_k) :
          SimilaritySearch(s, cands)
    \/ SimilaritySearchFails(s)
    \/ \E results \in SessionRerankOutcomes(PageContents(retrieved_docs[s]),
                                            RerankTopN(vectorstore[s])) :
          Rerank(s, results)
    \/ RerankFails(s)
    \/ ExtendDocuments(s)
    \/ ChatStreamGrounded(s)
    \/ ChatStreamPlain(s)
    \/ \E ev \in SessionEvents : StreamEvent(s, ev)
    \/ StreamFails(s)
    \/ StreamEnd(s)
    \/ Yield(s)
    \/ Finish(s)

NextSessions == \E s \in Sessions : SessionTurn(s)

\* Two browser sessions, their steps interleaved in any order.
SpecSessions == Init /\ [][NextSessions]_vars

\* ----------------------------------------------------------------- claims

RECURSIVE TextChunks(_)
\* The texts of the text-generation events of evs, in arrival order.
TextChunks(evs) ==
    IF evs = <<>> THEN <<>>
    ELSE (IF IsText(Head(evs)) THEN <<Head(evs).text>> ELSE <<>>)
         \o TextChunks(Tail(evs))

\* p is an initial segment of q.
IsPrefix(p, q) == Len(p) <= Len(q) /\ SubSeq(q, 1, Len(p)) = p

\* The generator of session s has reached its yield loop or finished it.
StreamOver(s) == pc[s] \in {"yielding", "done"}

\* Some citation event of evs carried at least one citation.
SomeCitation(evs) ==
    \E i \in DOMAIN evs : IsCitation(evs[i]) /\ evs[i].citations # <<>>

\* C1: whatever the interleaving of the events, the output list starts with
\* the text chunks in arrival order, so that every string of the citations
\* block comes after every text chunk; the consumer receives the list in
\* its order and, at the end, all of it.
C1_TextBeforeCitations ==
    \A s \in Sessions :
        /\ IsPrefix(TextChunks(events[s]), stream_responses[s])
        /\ IsPrefix(delivered[s], stream_responses[s])
        /\ StreamOver(s) =>
              \A i \in DOMAIN stream_responses[s] :
                  i > Len(TextChunks(events[s])) =>
                      stream_responses[s][i] \in
                          {"\n\nCITATIONS:", "\nDOCUMENTS:"}
                          \cup Range(citations[s])
                          \cup {cited_documents[s][j].id \o ", " :
                                   j \in DOMAIN cited_documents[s]}
        /\ pc[s] = "done" => delivered[s] = stream_responses[s]

\* A turn is done whose stream had a citation before its last text chunk.
C1_Witness ==
    /\ pc["A"] = "done"
    /\ Len(events["A"]) = 3
    /\ IsText(events["A"][1])
    /\ IsCitation(events["A"][2]) /\ events["A"][2].citations # <<>>
    /\ IsText(events["A"][3])
    /\ Len(delivered["A"]) > 3

\* No turn of the conversation of session s has gone unanswered: user and
\* assistant messages alternate in its transcript.
Answered(s) ==
    \A k \in 1..(Len(messages[s]) - 1) : messages[s][k].role # messages[s][k + 1].role

\* C2: the chat_stream calls of one conversation carry the same
\* conversation_id, one turn after the other (stated of the conversations
\* in which every earlier turn was answered).
C2_OneSessionId ==
    \A i, j \in DOMAIN chatLog :
        (chatLog[i].session = chatLog[j].session /\ Answered(chatLog[i].session)) =>
            chatLog[i].conversation_id = chatLog[j].conversation_id

\* C3: a text chunk has reached the consumer by the time a later event is
\* taken off the stream.
C3_DeliveredOnArrival ==
    \A s \in Sessions :
        \A i \in 1..Len(events[s]) :
            (i < Len(events[s]) /\ IsText(events[s][i])) =>
                Len(delivered[s]) >= Len(TextChunks(SubSeq(events[s], 1, i)))

\* C4: once the dense retrieval has returned zero candidates, retrieve has
\* returned the empty list: it is not at the reranker call and the reranker
\* has not failed it.
C4_EmptyCandidatesReturn ==
    \A s \in Sessions :
        (/\ rpc[s] \in {"rerank", "returned", "raised"}
         /\ error[s] # "similarity_search"
         /\ retrieved_docs[s] = <<>>)
        => (rpc[s] = "returned" /\ reranked_docs[s] = <<>>)

\* The chat_stream calls the service has received from session s.
CallsOf(s) == SelectSeq(chatLog, LAMBDA c : c.session = s)

\* C5: after an empty plan retrieve is never entered, and the call sent is
\* the one with the user message and the bot's conversation id and without
\* a documents argument.
C5_NoQueriesNoDocuments ==
    \A s \in Sessions :
        (pc[s] \notin {"none", "plan", "failed"} /\ search_queries[s] = <<>>) =>
            /\ rpc[s] = "none" /\ qi[s] = 0 /\ query[s] = ""
            /\ retrieved_docs[s] = <<>> /\ documents[s] = <<>>
            /\ (pc[s] = "streaming" /\ events[s] = <<>>) =>
                  /\ Len(request[s]) = 1
                  /\ request[s][1].message = messages[s][Len(messages[s])].content
                  /\ request[s][1].conversation_id = bot[s].conversation_id
                  /\ request[s][1].documents = <<>>
            /\ pc[s] # "ungrounded" =>
                  /\ CallsOf(s) # <<>>
                  /\ ~CallsOf(s)[Len(CallsOf(s))].grounded

\* The call without documents is in flight after an empty plan.
C5_Witness ==
    /\ pc["A"] = "streaming"
    /\ search_queries["A"] = <<>>
    /\ request["A"] # <<>>
    /\ Len(messages["A"]) = 1

\* C6: with a non-empty citations buffer at stream end, the output list is
\* the text chunks followed by exactly the header, the citations, the
\* documents header and "<id>, " per cited document, and so is what the
\* consumer has received when the turn is done.
C6_CitationsBlockFormat ==
    \A s \in Sessions :
        (StreamOver(s) /\ citations[s] # <<>>) =>
            LET block ==
                    <<"\n\nCITATIONS:">> \o citations[s] \o <<"\nDOCUMENTS:">>
                    \o [i \in DOMAIN cited_documents[s] |->
                            cited_documents[s][i].id \o ", "]
            IN  /\ stream_responses[s] = TextChunks(events[s]) \o block
                /\ pc[s] = "done" => delivered[s] = TextChunks(events[s]) \o block

\* A turn is done that had text, two citations and two cited documents.
C6_Witness ==
    /\ pc["A"] = "done"
    /\ citations["A"] = <<"c2", "c3">>
    /\ cited_documents["A"] = <<[id |-> "d1"], [id |-> "d2"]>>
    /\ delivered["A"] =
          <<"a", "\n\nCITATIONS:", "c2", "c3", "\nDOCUMENTS:", "d1, ", "d2, ">>

\* C7: when no citation event carried a citation, the output list is the
\* text chunks alone, search-results event or not.
C7_NoCitationsNoBlock ==
    \A s \in Sessions :
        (StreamOver(s) /\ ~SomeCitation(events[s])) =>
            /\ stream_responses[s] = TextChunks(events[s])
            /\ pc[s] = "done" => delivered[s] = TextChunks(events[s])

\* A turn is done whose stream had text, an empty citation event and a
\* search-results event.
C7_Witness ==
    /\ pc["A"] = "done"
    /\ \E i, j, k \in DOMAIN events["A"] :
          /\ IsText(events["A"][i])
          /\ IsCitation(events["A"][j])
          /\ IsSearchResults(events["A"][k])
    /\ ~SomeCitation(events["A"])
    /\ cited_documents["A"] # <<>>
    /\ Len(delivered["A"]) = 1

\* C8: retrieve returns at most rerank_top_k passages out of at most
\* retrieve_top_k candidates, and 0 < rerank_top_k <= retrieve_top_k.
C8_RetrievalBound ==
    \A s \in Sessions :
        vectorstore[s] # NoVectorstore =>
            /\ vectorstore[s].rerank_top_k > 0
            /\ vectorstore[s].rerank_top_k <= vectorstore[s].retrieve_top_k
            /\ Len(retrieved_docs[s]) <= vectorstore[s].retrieve_top_k
            /\ Len(rerank_results[s]) <= vectorstore[s].rerank_top_k
            /\ Len(reranked_docs[s]) <= vectorstore[s].rerank_top_k

\* retrieve has returned rerank_top_k passages out of more candidates.
C8_Witness ==
    /\ rpc["A"] = "returned"
    /\ Len(retrieved_docs["A"]) > vectorstore["A"].rerank_top_k
    /\ Len(reranked_docs["A"]) = vectorstore["A"].rerank_top_k

\* C9: the i-th passage retrieve returns is the candidate at the i-th
\* reranked index, text and metadata both, and so one of the candidates of
\* this call.
C9_RerankedSubset ==
    \A s \in Sessions :
        rpc[s] = "returned" =>
            /\ Len(reranked_docs[s]) = Len(rerank_results[s])
            /\ \A i \in DOMAIN reranked_docs[s] :
                  /\ \E c \in Range(retrieved_docs[s]) :
                        /\ reranked_docs[s][i].text = c.page_content
                        /\ reranked_docs[s][i].metadata = c.metadata
                  /\ LET c == retrieved_docs[s][rerank_results[s][i].index + 1]
                     IN  /\ reranked_docs[s][i].text = c.page_content
                         /\ reranked_docs[s][i].metadata = c.metadata

\* retrieve has returned three passages in an order that is neither the
\* candidates' nor the index's.
C9_Witness ==
    /\ rpc["A"] = "returned"
    /\ Len(reranked_docs["A"]) = 3
    /\ rerank_results["A"][1].index = 2
    /\ rerank_results["A"][2].index = 0
    /\ retrieved_docs["A"][1] # vectorstore["A"].vs[1]

\* The turn of session s is over because a call inside retrieve raised.
RetrievalFailed(s) == error[s] \in {"similarity_search", "rerank"}

\* C10: a failure of the index search or of the reranker ends the turn: the
\* error is with the script, whose run is over with the user message last
\* in the transcript; nothing was or is yielded; and from the failing step
\* on, as long as the user does not start another turn, no chat_stream call
\* is sent and retrieve is not entered again.
C10_RetrievalFailureEndsTurn ==
    /\ [](\A s \in Sessions :
            RetrievalFailed(s) =>
                /\ pc[s] = "failed" /\ rpc[s] = "raised" /\ ~running[s]
                /\ request[s] = <<>>
                /\ stream_responses[s] = <<>> /\ delivered[s] = <<>>
                /\ messages[s][Len(messages[s])].role = "user")
    /\ [][\A s \in Sessions :
            RetrievalFailed(s)' =>
                /\ CallsOf(s)' = CallsOf(s)
                /\ RetrievalFailed(s) =>
                      UNCHANGED <<pc[s], rpc[s], error[s], documents[s]>>]_vars

\* The reranker failed on the second sub-query, after the first had
\* brought documents.
C10_Witness ==
    /\ error["A"] = "rerank"
    /\ pc["A"] = "failed"
    /\ qi["A"] = 2
    /\ documents["A"] # <<>>

\* C11: when the stream fails after text chunks have arrived, those chunks
\* are with the consumer, no string of a citations block is, and the turn
\* has failed with the error raised to the script.
C11_PartialOutputKept ==
    \A s \in Sessions :
        error[s] = "chat_stream" =>
            /\ pc[s] = "failed" /\ ~running[s]
            /\ delivered[s] = TextChunks(events[s])
            /\ messages[s][Len(messages[s])].role = "user"

\* C12: the chat_stream call in flight has a documents argument exactly
\* when the accumulated document list is not empty.
C12_DocumentsIffNonEmpty ==
    \A s \in Sessions :
        request[s] # <<>> =>
            (request[s][1].documents # <<>> <=> documents[s] # <<>>)

\* C13: the index is built once, however many times the script runs.
C13_IndexBuiltOnce == builds <= 1

\* The chat_stream call of the turn of session s has been sent.
CallSent(s) == pc[s] \in {"streaming", "yielding", "done"} \/ error[s] = "chat_stream"

\* C14: retrieve runs only after the plan has returned, for the sub-query
\* the loop stands at; the loop advances by one, when a retrieve has
\* returned, and enters retrieve only for the sub-query it stands at; the
\* chat_stream call is sent only when every sub-query has been retrieved
\* for, and once the turn has sent it the turn sends no other; a turn that
\* is done has sent one.
C14_StepsInOrder ==
    /\ [](\A s \in Sessions :
            /\ pc[s] = "plan" => (rpc[s] = "none" /\ qi[s] = 0 /\ request[s] = <<>>)
            /\ rpc[s] \in {"similarity_search", "rerank", "returned"} =>
                  /\ pc[s] = "retrieving"
                  /\ qi[s] \in 1..Len(search_queries[s])
                  /\ query[s] = search_queries[s][qi[s]].text
                  /\ request[s] = <<>>
            /\ CallSent(s) =>
                  /\ rpc[s] = "none"
                  /\ qi[s] = IF search_queries[s] = <<>> THEN 0
                             ELSE Len(search_queries[s]) + 1
                  /\ CallsOf(s) # <<>>
            /\ Len(CallsOf(s)) <=
                  Cardinality({k \in DOMAIN messages[s] : messages[s][k].role = "user"}))
    /\ [][\A s \in Sessions :
            /\ qi'[s] # qi[s] =>
                  \/ qi'[s] = 0
                  \/ pc[s] = "plan" /\ qi'[s] = 1
                  \/ rpc[s] = "returned" /\ rpc'[s] = "none" /\ qi'[s] = qi[s] + 1
            /\ (rpc[s] # "similarity_search" /\ rpc'[s] = "similarity_search") =>
                  (rpc[s] = "none" /\ qi'[s] = qi[s])
            /\ CallsOf(s)' # CallsOf(s) =>
                  /\ ~CallSent(s) /\ CallSent(s)'
                  /\ Len(CallsOf(s)') = Len(CallsOf(s)) + 1
            /\ (CallSent(s) /\ CallSent(s)') => CallsOf(s)' = CallsOf(s)]_vars

\* The grounded call is in flight after two sub-queries, in this order,
\* each retrieved for.
C14_Witness ==
    /\ pc["A"] = "streaming"
    /\ request["A"] # <<>>
    /\ search_queries["A"] = <<[text |-> "q1"], [text |-> "q2"]>>
    /\ qi["A"] = 3
    /\ Len(documents["A"]) = 6

\* C15: the list of documents grows only when a retrieve returns, by the
\* whole list that retrieve returned, appended at the end in its order,
\* passages already held included; the grounded call carries the text of
\* every element of the list, in the order of the list.
C15_DocumentsConcatenated ==
    /\ [](\A s \in Sessions :
            (request[s] # <<>> /\ search_queries[s] # <<>>) =>
                /\ Len(request[s][1].documents) = 1
                /\ Len(request[s][1].documents[1]) = Len(documents[s])
                /\ \A i \in DOMAIN documents[s] :
                      request[s][1].documents[1][i] = [text |-> documents[s][i].text])
    /\ [][\A s \in Sessions :
            /\ documents'[s] # documents[s] =>
                  \/ ~running[s] /\ documents'[s] = <<>>
                  \/ /\ rpc[s] = "returned"
                     /\ documents'[s] = documents[s] \o reranked_docs[s]
            /\ (rpc[s] = "returned" /\ rpc'[s] = "none") =>
                  /\ Len(documents'[s]) = Len(documents[s]) + Len(reranked_docs[s])
                  /\ SubSeq(documents'[s], 1, Len(documents[s])) = documents[s]
                  /\ SubSeq(documents'[s], Len(documents[s]) + 1, Len(documents'[s]))
                        = reranked_docs[s]]_vars

\* Two sub-queries retrieved the same three passages: the grounded call
\* carries six documents, the first three again as the last three.
C15_Witness ==
    /\ request["A"] # <<>>
    /\ Len(search_queries["A"]) = 2
    /\ Len(request["A"][1].documents[1]) = 6
    /\ \A i \in 1..3 :
          request["A"][1].documents[1][i] = request["A"][1].documents[1][i + 3]

\* The citations of every citation event of evs, in arrival order.
RECURSIVE AllCitations(_)
AllCitations(evs) ==
    IF evs = <<>> THEN <<>>
    ELSE (IF IsCitation(Head(evs)) THEN Head(evs).citations ELSE <<>>)
         \o AllCitations(Tail(evs))

\* The documents of the last search-results event of evs, if there is one.
LastSearchResults(evs) ==
    LET at == {i \in DOMAIN evs : IsSearchResults(evs[i])}
    IN  IF at = {} THEN <<>>
        ELSE evs[CHOOSE i \in at : \A j \in at : j <= i].documents

\* C16: while the stream is read and after it, the citations buffer holds
\* the citations of all citation events in arrival order and the cited-
\* documents buffer holds the documents of the last search-results event
\* only; when some citation arrived, the output is the text chunks, then
\* the header, all the citations, the documents header and the ids of
\* that last event's documents: no citation stands among the text chunks.
C16_LastDocumentsAllCitations ==
    \A s \in Sessions :
        /\ (pc[s] = "streaming" \/ StreamOver(s)) =>
              /\ citations[s] = AllCitations(events[s])
              /\ cited_documents[s] = LastSearchResults(events[s])
        /\ (StreamOver(s) /\ AllCitations(events[s]) # <<>>) =>
              LET last == LastSearchResults(events[s])
                  tail == <<"\n\nCITATIONS:">> \o AllCitations(events[s])
                          \o <<"\nDOCUMENTS:">>
                          \o [i \in DOMAIN last |-> last[i].id \o ", "]
                  n    == Len(TextChunks(events[s]))
              IN  /\ Len(stream_responses[s]) = n + Len(tail)
                  /\ SubSeq(stream_responses[s], 1, n) = TextChunks(events[s])
                  /\ SubSeq(stream_responses[s], n + 1, n + Len(tail)) = tail

\* A turn is done whose stream had two search-results events with
\* different documents around a citation: the block lists the second's.
C16_Witness ==
    /\ pc["A"] = "done"
    /\ \E i, j \in DOMAIN events["A"] :
          /\ i < j
          /\ IsSearchResults(events["A"][i])
          /\ IsSearchResults(events["A"][j])
          /\ events["A"][i].documents # events["A"][j].documents
    /\ SomeCitation(events["A"])
    /\ delivered["A"][Len(delivered["A"]) - 1] = "\nDOCUMENTS:"

\* C17: a chat_stream call of one browser session never carries an id
\* that a call or the bot of another browser session carries, and the call
\* in flight carries the id of the bot of its own session.
C17_IdNotShared ==
    /\ \A i, j \in DOMAIN chatLog :
          chatLog[i].session # chatLog[j].session =>
              chatLog[i].conversation_id # chatLog[j].conversation_id
    /\ \A s, r \in Sessions :
          /\ (request[s] # <<>>) =>
                request[s][1].conversation_id = bot[s].conversation_id
          /\ (s # r /\ bot[s] # NoPaperBot /\ bot[r] # NoPaperBot) =>
                /\ bot[s].conversation_id # bot[r].conversation_id
                /\ \A i \in DOMAIN chatLog :
                      chatLog[i].session = s =>
                          chatLog[i].conversation_id # bot[r].conversation_id

\* Both conversations are in the middle of a turn over equal indexes and
\* each has sent a chat_stream call.
C17_Witness ==
    /\ running["A"] /\ running["B"]
    /\ vectorstore["A"] = vectorstore["B"]
    /\ vectorstore["A"] # NoVectorstore
    /\ CallsOf("A") # <<>>
    /\ CallsOf("B") # <<>>

\* The strings of chunks written one after the other, built from the end.
RECURSIVE Joined(_)
Joined(chunks) ==
    IF chunks = <<>> THEN ""
    ELSE Joined(SubSeq(chunks, 1, Len(chunks) - 1)) \o chunks[Len(chunks)]

\* C18 as stated: the roles of the transcript are user, assistant, user,
\* assistant and so on.
C18_StrictAlternation ==
    \A s \in Sessions :
        \A k \in DOMAIN messages[s] :
            messages[s][k].role = (IF k % 2 = 1 THEN "user" ELSE "assistant")

\* C18, amended: the transcript starts with a user message and every
\* assistant message directly follows a user message; during a turn and
\* after a failed one the last message is the turn's user message; after
\* a turn that is done the last two are its user message and one assistant
\* message holding the turn's output strings joined.  The transcript
\* changes only by the user message, appended in the step that starts the
\* turn, and by the assistant message, appended when every output string
\* has been consumed; the step in which a turn fails appends nothing.
C18_TranscriptShape ==
    /\ [](\A s \in Sessions :
            LET n == Len(messages[s])
            IN  /\ n > 0 => messages[s][1].role = "user"
                /\ \A k \in 1..n :
                      /\ messages[s][k].role \in {"user", "assistant"}
                      /\ messages[s][k].role = "assistant" =>
                            (k > 1 /\ messages[s][k - 1].role = "user")
                /\ (running[s] \/ pc[s] = "failed") =>
                      (n > 0 /\ messages[s][n] =
                                    [role |-> "user", content |-> message[s]])
                /\ pc[s] = "done" =>
                      /\ n > 1
                      /\ messages[s][n - 1] =
                            [role |-> "user", content |-> message[s]]
                      /\ messages[s][n] =
                            [role |-> "assistant",
                             content |-> Joined(stream_responses[s])])
    /\ [][\A s \in Sessions :
            /\ messages'[s] # messages[s] =>
                  /\ Len(messages'[s]) = Len(messages[s]) + 1
                  /\ SubSeq(messages'[s], 1, Len(messages[s])) = messages[s]
                  /\ \/ /\ ~running[s] /\ running'[s] /\ pc'[s] = "plan"
                        /\ messages'[s][Len(messages'[s])].role = "user"
                     \/ /\ pc[s] = "yielding" /\ pc'[s] = "done"
                        /\ delivered[s] = stream_responses[s]
                        /\ messages'[s][Len(messages'[s])].role = "assistant"
            /\ (pc[s] # "plan" /\ pc'[s] = "plan") =>
                  Len(messages'[s]) = Len(messages[s]) + 1
            /\ (pc[s] # "done" /\ pc'[s] = "done") =>
                  Len(messages'[s]) = Len(messages[s]) + 1
            /\ (pc[s] # "failed" /\ pc'[s] = "failed") =>
                  messages'[s] = messages[s]]_vars

\* A failed turn was followed by a turn that is done and that had
\* several output strings: two user messages, then the one answer.
C18_Witness ==
    /\ pc["A"] = "done"
    /\ Len(messages["A"]) = 3
    /\ messages["A"][2].role = "user"
    /\ messages["A"][3].role = "assistant"
    /\ Len(stream_responses["A"]) > 1

\* C19: no step taken inside a turn changes the paper, the store's
\* passages, index, retrieve_top_k or rerank_top_k, or the bot's
\* conversation_id; during a turn and after it, done or failed, the store
\* is as its constructor left it and every chat_stream call of the turn
\* carried the id the bot still has.
C19_TurnFrame ==
    /\ [](\A s \in Sessions :
            (running[s] \/ pc[s] \in {"done", "failed"}) =>
                /\ vectorstore[s] = NewVectorstore(paper)
                /\ vectorstore[s].retrieve_top_k = 10
                /\ vectorstore[s].rerank_top_k = 3
                /\ bot[s] # NoPaperBot
                /\ CallSent(s) =>
                      CallsOf(s)[Len(CallsOf(s))].conversation_id
                          = bot[s].conversation_id)
    /\ [][\A s \in Sessions :
            running[s] =>
                /\ paper' = paper
                /\ vectorstore'[s] = vectorstore[s]
                /\ bot'[s] = bot[s]]_vars

\* A turn that retrieved passages and sent its chat_stream call has ended,
\* done or failed, over a store that still holds every page.
C19_Witness ==
    /\ pc["A"] \in {"done", "failed"}
    /\ CallSent("A")
    /\ documents["A"] # <<>>
    /\ vectorstore["A"].docs = Pages(NumPages)

====
